---- MODULE Spec2Model ----
(***************************************************************************)
(* Model of scanpy/neighbors/__init__.py: the Neighbors object             *)
(* (compute_neighbors and the connected-component partition), the exact    *)
(* dense neighbor search, the adaptive-bandwidth Gaussian kernel, the      *)
(* diffusion-pseudotime rows, the OnFlySymMatrix row cache with its        *)
(* restricted views, and the flattening of an RP forest.                   *)
(*                                                                         *)
(* Optional values (Python None, or an attribute that is not set) are      *)
(* sequences: <<>> is None and <<v>> holds v.                              *)
(***************************************************************************)
EXTENDS Integers, Sequences, FiniteSets, TLC

None == <<>>
Some(v) == <<v>>
IsSome(o) == o # <<>>
Val(o) == o[1]

Min(a, b) == IF a <= b THEN a ELSE b
Max(a, b) == IF a >= b THEN a ELSE b

(***************************************************************************)
(* Program constants.                                                      *)
(***************************************************************************)
\* X.shape[0] below which the Euclidean metric uses the exact dense search
DenseLimit == 8192
\* X.shape[0] below which the approximate search runs on pairwise distances
PrecomputeLimit == 4096
\* n_obs from which a non-knn computation logs the memory warning
MemoryWarnLimit == 10000
\* the eigenvalue 0.9994, in units of 1/10000, from which a component counts as
\* stationary
StationaryCutoff == 9994

(***************************************************************************)
(* Bounds of the model.                                                    *)
(***************************************************************************)
\* number of compute_neighbors calls on one Neighbors object
MaxCalls == 1
\* number of observations of a distance matrix
MaxObs == 3
\* largest distance (distances are 0..MaxDist)
MaxDist == 2
\* largest number of eigen components
MaxComps == 2
\* largest entry of an eigenvector (entries are 0..MaxPsi)
MaxPsi == 1
\* observations under a held OnFlySymMatrix
MaxCells == 2
\* longest index array of a restricted view
MaxRestrict == 2
\* most trees of a forest
MaxTrees == 2
\* most rows of one array of a tree
MaxRows == 2
\* features of the data the root is looked up in
MaxVars == 2

\* values of adata.shape[0]: small ones and both sides of each size threshold
NObsValues ==
    {1, 2, 3, PrecomputeLimit - 1, PrecomputeLimit,
     DenseLimit - 1, DenseLimit, MemoryWarnLimit}
\* requested n_neighbors: small ones and one that exceeds the lower threshold
NNeighborsValues == {1, 2, 3, 4, PrecomputeLimit + 1}
Methods == {"umap", "gauss", "tsne"}
Metrics == {"euclidean", "cosine"}

VARIABLES
    \* ---- the Neighbors object --------------------------------------------
    n_obs,                        \* self._adata.shape[0]
    n_neighbors,                  \* self.n_neighbors (None: not set)
    knn,                          \* self.knn
    distances,                    \* self._distances
    connectivities,               \* self._connectivities
    number_connected_components,  \* self._number_connected_components
    connected_components,         \* self._connected_components
    knn_indices,                  \* self.knn_indices / self.knn_distances
    call,                         \* the last compute_neighbors call and its outcome
    ncalls,                       \* compute_neighbors calls made so far
    uns,                          \* adata.uns['neighbors'] (None: no such key)
    data,                         \* what the observations in adata are like
    \* ---- get_indices_distances_from_dense_matrix -------------------------
    D,                            \* the pairwise distance matrix, D[i][j]
    k_dense,                      \* its argument n_neighbors
    dense_result,                 \* the (indices, distances) it returned
    \* ---- spectral data, pseudotime ---------------------------------------
    eigen_values,                 \* self._eigen_values, in units of 1/10000
    eigen_basis,                  \* self._eigen_basis, eigen_basis[i][l]
    iroot,                        \* self.iroot
    pseudotime,                   \* self.pseudotime
    pt_rows,                      \* .rows of the matrix _set_pseudotime indexed
    \* ---- an OnFlySymMatrix M = distances_dpt and the view derived from it --
    rows,                         \* M.rows, the cache M shares with its views
    view,                         \* restrict_array of the view held (None: no view)
    get_row_log,                  \* the rows get_row returned, per global index
    last,                         \* the last lookup and what it returned
    \* ---- random-projection forest, flattened and regenerated ---------------
    forest,                       \* the trees handed to _make_forest_dict
    rp_forest_dict,               \* what _make_forest_dict returned
    regenerated,                  \* what iterating _rp_forest_generate gave
    \* ---- transitions, and the outcome of the last operation ---------------
    Z,                            \* self.Z (None: the attribute is not set)
    transitions_sym,              \* self._transitions_sym
    op,                           \* the last operation or read, and its outcome
    \* ---- the annotated data an object is built over ------------------------
    adata,                        \* the root entries, X and n_vars of adata
    rp_forest,                    \* self._rp_forest
    \* ---- conversions between (indices, distances) and sparse matrices ------
    conv_args,                    \* the arguments of the conversion
    conv_result                   \* what it returned

neighborsVars ==
    <<n_obs, n_neighbors, knn, distances, connectivities,
      number_connected_components, connected_components, knn_indices, call,
      ncalls, uns, data>>

denseVars == <<D, k_dense, dense_result>>

dptVars == <<eigen_values, eigen_basis, iroot, pseudotime, pt_rows>>

onflyVars == <<rows, view, get_row_log, last>>

forestVars == <<forest, rp_forest_dict, regenerated>>

transVars == <<Z, transitions_sym, op>>

sideVars == <<adata, rp_forest, conv_args, conv_result>>

vars == <<neighborsVars, denseVars, dptVars, onflyVars, forestVars, transVars,
          sideVars>>

\* the variables of a part of the program that a specification does not run
DenseOff == D = <<>> /\ k_dense = 0 /\ dense_result = None

DptOff ==
    /\ eigen_values = None /\ eigen_basis = None /\ iroot = None
    /\ pseudotime = None /\ pt_rows = None

OnFlyOff == rows = None /\ view = None /\ get_row_log = None /\ last = None

ForestOff == forest = None /\ rp_forest_dict = None /\ regenerated = None

TransOff == Z = None /\ transitions_sym = None /\ op = None

SideOff ==
    adata = None /\ rp_forest = None /\ conv_args = None /\ conv_result = None

(***************************************************************************)
(* Neighbors.compute_neighbors, at the level of shapes and representations *)
(***************************************************************************)
\* the adjustment of lines 640-641 left out
EffectiveNeighbors_NoClamp(requested, n) == requested

\* lines 640-641: very small datasets
EffectiveNeighbors(requested, n) ==
    IF requested > n THEN 1 + (n \div 2) ELSE requested

\* the check of lines 645-646 left out
ConfigError_UmapOnly(method, k) == method = "umap" /\ ~k

\* lines 643-646: the two configuration errors
ConfigError(method, k) ==
    \/ method = "umap" /\ ~k
    \/ method \notin {"umap", "gauss"}

\* line 653 with <= for <
UseDenseDistances_Le(metric, n, k) ==
    (metric = "euclidean" /\ n <= DenseLimit) \/ k = FALSE

\* line 653
UseDenseDistances(metric, n, k) ==
    (metric = "euclidean" /\ n < DenseLimit) \/ k = FALSE

\* lines 665-667: what compute_neighbors_umap is run on
ApproxInput(n, metric) ==
    IF n < PrecomputeLimit
    THEN [on |-> "pairwise_distances", metric |-> "precomputed"]
    ELSE [on |-> "X", metric |-> metric]

\* line 362: np.argpartition(D, kk-1, axis=1) raises when kth is out of bounds
ArgpartitionFails(n, kk) == kk - 1 >= n \/ kk - 1 < 0 - n

\* line 362: the number of columns of indices[:, :kk]
DenseSearchWidth(n, kk) == Min(kk, n)

\* lines 654-669: the neighbor search that is run
NeighborSearch(metric, n, k, kk) ==
    IF UseDenseDistances(metric, n, k)
    THEN [path |-> "dense", on |-> "pairwise_distances", metric |-> metric,
          width |-> DenseSearchWidth(n, kk)]
    ELSE [path |-> "approx", on |-> ApproxInput(n, metric).on,
          metric |-> ApproxInput(n, metric).metric, width |-> kk]

\* lines 658-662: self._distances after the dense search
DenseDistances(k, kk, metric) ==
    IF k THEN [sparse |-> TRUE, by |-> "numpy", k |-> kk, metric |-> metric]
    ELSE [sparse |-> FALSE, by |-> "pairwise_distances", k |-> kk, metric |-> metric]

\* lines 276-297, 321: the distances compute_connectivities_umap returns
UmapDistances(kk, metric) ==
    [sparse |-> TRUE, by |-> "umap", k |-> kk, metric |-> metric]

\* lines 300-323: the connectivities compute_connectivities_umap returns
UmapConnectivities(kk, metric) ==
    [sparse |-> TRUE, by |-> "umap", k |-> kk, metric |-> metric]

\* lines 696-759: W has the representation of self._distances
GaussConnectivities(d) ==
    [sparse |-> d.sparse, by |-> "gauss", k |-> d.k, metric |-> d.metric]

\* line 720: distances_sq[:, -1] on an array without columns (n_neighbors = 1)
\* lines 349-356: a sparse row that stores too few entries to fill k-1 slots
GaussFails(d, kk, undercomplete) ==
    IF d.sparse THEN (undercomplete /\ kk >= 2) ELSE kk = 1

Outcome(args, raised, search, warned) ==
    Some([args |-> args, raised |-> raised, search |-> search, warned |-> warned])

NoSearch == [path |-> "none", on |-> "none", metric |-> "none", width |-> 0]

\* lines 640-642, 647-648: the warnings logged
Warnings(requested, n, k) ==
    (IF requested > n THEN {"n_obs too small"} ELSE {})
    \cup (IF n >= MemoryWarnLimit /\ ~k THEN {"high n_obs"} ELSE {})

\* lines 690-694: the partition of a sparse connectivity matrix into c components
\* (issparse(None) is False)
Partition(conn, c) ==
    IF IsSome(conn) /\ Val(conn).sparse
    THEN [number |-> c, labels |-> Some([n |-> c, of |-> Val(conn)])]
    ELSE [number |-> 1, labels |-> connected_components]

\* lines 608-694.  data stands for what the observations decide: whether a row of
\* the sparse distance matrix stores too few entries (coincident points), and the
\* number of connected components of the neighbor graph.
ComputeNeighbors(requested, k, method, metric, write) ==
    LET kk == EffectiveNeighbors(requested, n_obs)
        args == [n_neighbors |-> requested, knn |-> k, method |-> method,
                 metric |-> metric, write_knn_indices |-> write]
        early == IF requested > n_obs THEN {"n_obs too small"} ELSE {}
        warned == Warnings(requested, n_obs, k)
        search == NeighborSearch(metric, n_obs, k, kk)
        dense == UseDenseDistances(metric, n_obs, k)
        d1 == IF dense THEN Some(DenseDistances(k, kk, metric)) ELSE distances
        viaUmap == ~dense \/ method = "umap"
        d2 == IF viaUmap THEN Some(UmapDistances(kk, metric)) ELSE d1
        c1 == IF viaUmap THEN Some(UmapConnectivities(kk, metric)) ELSE connectivities
        c2 == IF method = "gauss" THEN Some(GaussConnectivities(Val(d2))) ELSE c1
        written == IF write THEN Some([width |-> search.width]) ELSE knn_indices
        p == Partition(c2, data.components)
    IN  /\ ncalls < MaxCalls
        /\ ncalls' = ncalls + 1
        /\ UNCHANGED <<n_obs, data>>
        /\ IF ConfigError(method, k)
           THEN /\ call' = Outcome(args, "ValueError", NoSearch, early)
                /\ UNCHANGED <<n_neighbors, knn, distances, connectivities,
                               number_connected_components, connected_components,
                               knn_indices>>
           ELSE /\ n_neighbors' = Some(kk)
                /\ knn' = Some(k)
                /\ IF dense /\ ArgpartitionFails(n_obs, kk)
                   THEN /\ call' = Outcome(args, "kth out of bounds", NoSearch, warned)
                        /\ UNCHANGED <<distances, connectivities, knn_indices,
                                       number_connected_components,
                                       connected_components>>
                   ELSE /\ knn_indices' = written
                        /\ IF method = "gauss" /\ GaussFails(Val(d2), kk, data.undercomplete)
                           THEN /\ call' = Outcome(args, "kernel failed", search, warned)
                                /\ distances' = d2
                                /\ connectivities' = c1
                                /\ UNCHANGED <<number_connected_components,
                                               connected_components>>
                           ELSE /\ call' = Outcome(args, "none", search, warned)
                                /\ distances' = d2
                                /\ connectivities' = c2
                                /\ number_connected_components' = Some(p.number)
                                /\ connected_components' = p.labels

\* lines 90-108: the block a neighbors() run leaves in adata.uns['neighbors']
\* (here without an rp_forest entry); d and c are the matrices it computed
ResultsBlock(requested, method, metric, d, c) ==
    [params |-> [n_neighbors |-> requested, method |-> method, metric |-> metric],
     distances |-> d, connectivities |-> c]

\* the blocks of two earlier runs on n observations: neighbors(n_neighbors=2) and
\* neighbors(n_neighbors=2, knn=False, method='gauss')
StoredBlocks(n) ==
    LET kk == EffectiveNeighbors(2, n)
        dd == DenseDistances(FALSE, kk, "euclidean")
    IN  {ResultsBlock(2, "umap", "euclidean", UmapDistances(kk, "euclidean"),
                      UmapConnectivities(kk, "euclidean")),
         ResultsBlock(2, "gauss", "euclidean", dd, GaussConnectivities(dd))}

\* lines 474-528: Neighbors(adata); the stored block always holds params,
\* distances and connectivities
NeighborsInit ==
    /\ n_obs \in NObsValues
    /\ data \in [undercomplete : BOOLEAN, components : 1..Min(n_obs, 2)]
    /\ uns \in {None} \cup {Some(b) : b \in StoredBlocks(n_obs)}
    /\ knn_indices = None
    /\ call = None
    /\ ncalls = 0
    /\ IF uns = None
       THEN /\ n_neighbors = None
            /\ knn = None
            /\ distances = None
            /\ connectivities = None
            /\ number_connected_components = None
            /\ connected_components = None
       ELSE /\ n_neighbors = Some(Val(uns).params.n_neighbors)
            /\ knn = Some(Val(uns).connectivities.sparse)
            /\ distances = Some(Val(uns).distances)
            /\ connectivities = Some(Val(uns).connectivities)
            /\ number_connected_components =
                   Some(IF Val(uns).connectivities.sparse THEN data.components ELSE 1)
            /\ connected_components =
                   IF Val(uns).connectivities.sparse
                   THEN Some([n |-> data.components, of |-> Val(uns).connectivities])
                   ELSE None

\* ---------------------------------------------------------------------------
\* neighbors(adata, ...), lines 86-108: a Neighbors object is constructed over
\* adata, compute_neighbors runs on it, and the results block is written.

\* the block written without its forest
WrittenBlock_NoForest(requested, method, metric, d, c, f) ==
    ResultsBlock(requested, method, metric, d, c)

\* lines 94-108: the block starts empty and gets params, distances,
\* connectivities and, if the object holds one, the rp_forest
WrittenBlock(requested, method, metric, d, c, f) ==
    IF IsSome(f)
    THEN [params |-> ResultsBlock(requested, method, metric, d, c).params,
          distances |-> d, connectivities |-> c, rp_forest |-> Val(f)]
    ELSE ResultsBlock(requested, method, metric, d, c)

\* lines 494-495: the n_neighbors of an object constructed over a block
ConstructedNNeighbors(block) == block.params.n_neighbors

\* the blocks adata may carry on entry: those of the earlier runs, with or
\* without a flattened forest, with or without an entry of another origin
CarriedBlocks(n) ==
    UNION {{b,
            [params |-> b.params, distances |-> b.distances,
             connectivities |-> b.connectivities, rp_forest |-> "forest"],
            [params |-> b.params, distances |-> b.distances,
             connectivities |-> b.connectivities, other |-> "entry"],
            [params |-> b.params, distances |-> b.distances,
             connectivities |-> b.connectivities, rp_forest |-> "forest",
             other |-> "entry"]} : b \in StoredBlocks(n)}

\* lines 86-89, 474-528: adata as handed to neighbors() and the object
\* Neighbors(adata) built over it; _rp_forest is the stored forest, if any
RunInit ==
    /\ n_obs \in NObsValues
    /\ data \in [undercomplete : BOOLEAN, components : 1..Min(n_obs, 2)]
    /\ uns \in {None} \cup {Some(b) : b \in CarriedBlocks(n_obs)}
    /\ adata = Some([uns_neighbors |-> uns])
    /\ knn_indices = None
    /\ call = None
    /\ ncalls = 0
    /\ IF uns = None
       THEN /\ n_neighbors = None
            /\ knn = None
            /\ distances = None
            /\ connectivities = None
            /\ number_connected_components = None
            /\ connected_components = None
            /\ rp_forest = None
       ELSE /\ n_neighbors = Some(ConstructedNNeighbors(Val(uns)))
            /\ knn = Some(Val(uns).connectivities.sparse)
            /\ distances = Some(Val(uns).distances)
            /\ connectivities = Some(Val(uns).connectivities)
            /\ number_connected_components =
                   Some(IF Val(uns).connectivities.sparse THEN data.components ELSE 1)
            /\ connected_components =
                   IF Val(uns).connectivities.sparse
                   THEN Some([n |-> data.components, of |-> Val(uns).connectivities])
                   ELSE None
            /\ rp_forest = IF "rp_forest" \in DOMAIN Val(uns)
                           THEN Some(Val(uns).rp_forest) ELSE None
    /\ conv_args = None /\ conv_result = None

\* lines 90-108 on the object just built: compute_neighbors (knn_indices are
\* not asked for), then the block; an exception leaves adata as it was
NeighborsRun(requested, k, method, metric) ==
    /\ call = None
    /\ ComputeNeighbors(requested, k, method, metric, FALSE)
    /\ uns' = IF Val(call').raised = "none"
              THEN Some(WrittenBlock(requested, method, metric, Val(distances'),
                                     Val(connectivities'), rp_forest))
              ELSE uns
    /\ UNCHANGED <<adata, rp_forest, conv_args, conv_result>>

(***************************************************************************)
(* get_indices_distances_from_dense_matrix (lines 360-365).                *)
(* Rows and columns are numbered from 0 as in the source; a row of the     *)
(* result is a sequence, so column c of the source is position c + 1.      *)
(***************************************************************************)
Obs(n) == 0..(n - 1)

\* D.shape[0]
Rows(M) == Cardinality(DOMAIN M)

PairsOf(n) == {p \in Obs(n) \X Obs(n) : p[1] < p[2]}

\* the symmetric matrices over Obs(n) with zero diagonal and entries 0..MaxDist
DistanceMatrices(n) ==
    {[i \in Obs(n) |-> [j \in Obs(n) |->
        IF i = j THEN 0 ELSE u[<<Min(i, j), Max(i, j)>>]]] :
     u \in [PairsOf(n) -> 0..MaxDist]}

\* the sequences of kk distinct elements of S
RECURSIVE Arrangements(_, _)
Arrangements(S, kk) ==
    IF kk = 0 THEN {<<>>}
    ELSE UNION {{<<x>> \o t : t \in Arrangements(S \ {x}, kk - 1)} : x \in S}

Range(s) == {s[p] : p \in DOMAIN s}

\* lines 362-363 on one row: np.argpartition(row, kk-1)[:kk] holds kk columns
\* none of which is farther than a column left out, and np.argsort orders them
\* by distance; numpy leaves the order of equal distances open in both
DenseRowChoices(row, n, kk) ==
    {s \in Arrangements(Obs(n), kk) :
        /\ \A a \in Range(s), b \in Obs(n) \ Range(s) : row[a] <= row[b]
        /\ \A p, q \in DOMAIN s : p < q => row[s[p]] <= row[s[q]]}

\* line 364: distances = D[sample_range, indices]
DenseDistancesOf(M, idx) ==
    [i \in DOMAIN M |-> [p \in DOMAIN idx[i] |-> M[i][idx[i][p]]]]

\* lines 360-365: every (indices, distances) the call may return
DenseResults(M, kk) ==
    {[indices |-> idx, distances |-> DenseDistancesOf(M, idx)] :
     idx \in {f \in [DOMAIN M -> Arrangements(DOMAIN M, kk)] :
               \A i \in DOMAIN M : f[i] \in DenseRowChoices(M[i], Rows(M), kk)}}

\* lines 360-365
GetIndicesDistancesFromDenseMatrix ==
    /\ dense_result = None
    /\ \E r \in DenseResults(D, k_dense) : dense_result' = Some(r)
    /\ UNCHANGED <<D, k_dense>>

\* a distance matrix over 1..MaxObs observations and 1 <= n_neighbors <= n_obs
DenseInit ==
    /\ \E n \in 1..MaxObs : D \in DistanceMatrices(n)
    /\ k_dense \in 1..Rows(D)
    /\ dense_result = None

(***************************************************************************)
(* Neighbors._compute_connectivities_diffmap (lines 696-759) with          *)
(* get_indices_distances_from_sparse_matrix (lines 338-357).               *)
(*                                                                         *)
(* A dense matrix is [sparse |-> FALSE, m |-> M], M[i][j] the entry.  A    *)
(* csr matrix is [sparse |-> TRUE, rows |-> R], R[i] the function from the *)
(* columns row i stores to their (non-zero) values.                        *)
(*                                                                         *)
(* Floating-point values are kept exact: a bandwidth sigma^2 is held as    *)
(* the integer 4*sigma^2 (None: nan), and a weight                         *)
(*   sqrt(2 s_i s_j / (s_i^2 + s_j^2)) * exp(-Dsq / (s_i^2 + s_j^2))       *)
(* as the numbers that determine it: prod = (4 s_i^2)(4 s_j^2),            *)
(* sum = 4 s_i^2 + 4 s_j^2 and dsq = Dsq.                                  *)
(***************************************************************************)
Zero == [kind |-> "zero"]
NaN == [kind |-> "nan"]

\* the distance matrices with no zero off the diagonal
PositiveDistanceMatrices(n) ==
    {M \in DistanceMatrices(n) : \A i, j \in Obs(n) : i # j => M[i][j] > 0}

\* the csr distance matrices over Obs(n): any set of stored columns per row (the
\* diagonal, a zero, is never stored), the values those of a symmetric distance
SparseDistanceMatrices(n) ==
    {[sparse |-> TRUE, rows |-> [i \in Obs(n) |-> [j \in pat[i] |-> M[i][j]]]] :
     M \in PositiveDistanceMatrices(n),
     pat \in {q \in [Obs(n) -> SUBSET Obs(n)] : \A i \in Obs(n) : i \notin q[i]}}

DenseDistanceMatrices(n) ==
    {[sparse |-> FALSE, m |-> M] : M \in DistanceMatrices(n)}

\* lines 699, 703: Dsq
Squared(d) ==
    IF d.sparse
    THEN [sparse |-> TRUE,
          rows |-> [i \in DOMAIN d.rows |->
                      [j \in DOMAIN d.rows[i] |-> d.rows[i][j] * d.rows[i][j]]]]
    ELSE [sparse |-> FALSE,
          m |-> [i \in DOMAIN d.m |-> [j \in DOMAIN d.m |-> d.m[i][j] * d.m[i][j]]]]

Ascending(s) == SortSeq(s, LAMBDA a, b : a < b)

\* lines 343-356 on row i: the slots 1.. of indices[i] and distances[i].
\* More than k-1 stored entries: the k-1 smallest in increasing order (argsort,
\* equal distances in any order).  Exactly k-1: the stored entries as they are
\* stored.  One entry for several slots: numpy broadcasts it into every slot.
\* Any other number: the assignment raises ValueError (no result).
SparseRowChoices(row, kk) ==
    LET stored == DOMAIN row
        m == kk - 1
    IN  IF Cardinality(stored) > m
        THEN {s \in Arrangements(stored, m) :
                /\ \A a \in Range(s), b \in stored \ Range(s) : row[a] <= row[b]
                /\ \A p, q \in DOMAIN s : p < q => row[s[p]] <= row[s[q]]}
        ELSE IF Cardinality(stored) = m
        THEN Arrangements(stored, m)
        ELSE IF Cardinality(stored) = 1
        THEN {[p \in 1..m |-> c] : c \in stored}
        ELSE {}

\* lines 338-357 without column 0: every indices[:, 1:] the call may return;
\* empty when a row makes it raise
SparseIndices(dsq, kk) ==
    {f \in [DOMAIN dsq.rows -> UNION {SparseRowChoices(dsq.rows[i], kk) : i \in DOMAIN dsq.rows}] :
        \A i \in DOMAIN dsq.rows : f[i] \in SparseRowChoices(dsq.rows[i], kk)}

\* line 716: 4 * np.median of the k-1 squared distances of a row (nan if none)
Median4(ds) ==
    LET a == Ascending(ds)
        m == Len(ds)
    IN  IF m = 0 THEN None
        ELSE IF m % 2 = 1 THEN Some(4 * a[(m + 1) \div 2])
        ELSE Some(2 * (a[m \div 2] + a[(m \div 2) + 1]))

\* lines 725-727, 748-751: the weight of an entry
Weight(si, sj, dsq) ==
    IF si = None \/ sj = None THEN NaN
    ELSE IF Val(si) + Val(sj) = 0 THEN NaN
    ELSE IF Val(si) * Val(sj) = 0 THEN Zero
    ELSE [kind |-> "w", prod |-> Val(si) * Val(sj), sum |-> Val(si) + Val(sj),
          dsq |-> dsq]

\* line 730: W > 1e-14.  The exponent is 4*dsq/sum; up to 31 the weight is above
\* 1e-14, from 33 on it is below, and no value between occurs for the distances
\* of the model.  A nan compares False.
AboveCutoff(w) == w.kind = "w" /\ 4 * w.dsq <= 31 * w.sum

\* lines 745-757: the sparse code path.  W holds a weight at every stored entry;
\* then W[j,i] = W[i,j] for every j in indices[i] with i not in indices[j].  An
\* entry that is assigned is never read by a later assignment (it has i not in
\* indices[j], a read needs i in indices[j]), so the loop is one parallel update.
SparseWeights(dsq, ind, sig) ==
    LET n == DOMAIN dsq.rows
        W0 == [a \in n |-> [b \in n |->
                 IF b \in DOMAIN dsq.rows[a]
                 THEN Weight(sig[a], sig[b], dsq.rows[a][b]) ELSE Zero]]
    IN  [a \in n |-> [b \in n |->
           IF a \in Range(ind[b]) /\ b \notin Range(ind[a])
           THEN W0[b][a] ELSE W0[a][b]]]

\* lines 725-731: the dense code path with knn False
DenseWeights(dsq, sig) ==
    [a \in DOMAIN dsq.m |-> [b \in DOMAIN dsq.m |->
        LET w == Weight(sig[a], sig[b], dsq.m[a][b])
        IN  IF AboveCutoff(w) THEN w ELSE Zero]]

\* lines 696-759: the results of the call: the matrix it stores in
\* self._connectivities, or the exception it raises
DiffmapResults(d, k, kk) ==
    LET dsq == Squared(d)
    IN  IF k /\ ~d.sparse
        THEN {[raised |-> "AttributeError"]}    \* line 699: an ndarray has no power()
        ELSE IF k
        THEN IF SparseIndices(dsq, kk) = {}
             THEN {[raised |-> "ValueError"]}       \* lines 355-356
             ELSE {[raised |-> "none",
                    W |-> [sparse |-> TRUE,
                           m |-> SparseWeights(dsq, ind,
                                    [i \in DOMAIN ind |->
                                       Median4([p \in DOMAIN ind[i] |->
                                                  dsq.rows[i][ind[i][p]]])])],
                    indices |-> ind] :
                   ind \in SparseIndices(dsq, kk)}
        ELSE IF kk = 1
        THEN {[raised |-> "IndexError"]}            \* line 720
        ELSE {[raised |-> "none",
               W |-> [sparse |-> FALSE,
                      m |-> DenseWeights(dsq,
                               [i \in DOMAIN dsq.m |->
                                  Some(Ascending([p \in 1..Rows(dsq.m) |->
                                                    dsq.m[i][p - 1]])[kk])])],
               indices |-> <<>>]}

\* lines 696-759
ComputeConnectivitiesDiffmap ==
    /\ call = None
    /\ \E r \in DiffmapResults(Val(distances), Val(knn), Val(n_neighbors)) :
          /\ call' = Some(r)
          /\ connectivities' = IF r.raised = "none" THEN Some(r.W) ELSE connectivities
    /\ UNCHANGED <<n_obs, n_neighbors, knn, distances, number_connected_components,
                   connected_components, knn_indices, ncalls, uns, data>>

\* a Neighbors object that holds distances: sparse ones with knn True (any set
\* of stored entries), dense ones with knn either way; 1 <= n_neighbors <= n_obs
GaussInit ==
    /\ n_obs \in 1..MaxObs
    /\ distances \in {Some(d) : d \in SparseDistanceMatrices(n_obs)
                                     \cup DenseDistanceMatrices(n_obs)}
    /\ knn \in {Some(b) : b \in BOOLEAN}
    /\ Val(distances).sparse => Val(knn)
    /\ n_neighbors \in {Some(kk) : kk \in 1..n_obs}
    /\ connectivities = None
    /\ number_connected_components = None /\ connected_components = None
    /\ knn_indices = None /\ call = None /\ ncalls = 0 /\ uns = None /\ data = None

\* ---------------------------------------------------------------------------
\* Connected components and diffusion distances: the tail of compute_neighbors,
\* _get_dpt_row and _set_pseudotime.  A connectivity matrix is kept as the set
\* of its nonzero off-diagonal pairs; an entry of a distance row is +infinity or
\* the square root of an integer; an entry of the pseudotime is +infinity, nan
\* or the quotient of two such roots.

Inf == [kind |-> "inf"]
Root(v) == [kind |-> "sqrt", of |-> v]
Ratio(v, m) == [kind |-> "ratio", num |-> v, den |-> m]

\* the sparse connectivity matrices over n observations, and the dense one
\* (a dense matrix stores every pair)
SparseGraphs(n) == {[sparse |-> TRUE, edges |-> E] : E \in SUBSET PairsOf(n)}
DenseGraph(n) == [sparse |-> FALSE, edges |-> PairsOf(n)]
Graphs(n) == SparseGraphs(n) \cup {DenseGraph(n)}

\* what a stored block may hold: a sparse or a dense matrix with any links
StoredGraphs(n) ==
    {[sparse |-> sp, edges |-> E] : sp \in BOOLEAN, E \in SUBSET PairsOf(n)}

Linked(E, a, b) == <<a, b>> \in E \/ <<b, a>> \in E

RECURSIVE Reach(_, _, _)
Reach(E, n, S) ==
    LET T == S \cup {b \in Obs(n) : \E a \in S : Linked(E, a, b)}
    IN IF T = S THEN S ELSE Reach(E, n, T)

SetMin(S) == CHOOSE x \in S : \A y \in S : x <= y
SetMax(S) == CHOOSE x \in S : \A y \in S : x >= y

\* scipy's connected_components: (count, labels), labels numbered in the order
\* in which the components are met
ConnectedComponents(E, n) ==
    LET first(i) == SetMin(Reach(E, n, {i}))
        firsts == {first(i) : i \in Obs(n)}
    IN [n |-> Cardinality(firsts),
        labels |-> [i \in Obs(n) |->
                        Cardinality({f \in firsts : f < first(i)})]]

\* lines 690-694 (and 505-509): the count is reset to 1; labels are assigned
\* only from a sparse matrix, else the attribute keeps what it held
PartitionOfGraph(W, n, held) ==
    IF W.sparse
    THEN [number |-> ConnectedComponents(W.edges, n).n,
          components |-> Some(ConnectedComponents(W.edges, n))]
    ELSE [number |-> 1, components |-> held]

\* a compute_neighbors that would drop what compute_transitions built
ComputeNeighborsGraph_ResetsTransitions(W) ==
    /\ ncalls < MaxCalls
    /\ LET part == PartitionOfGraph(W, n_obs, connected_components)
       IN /\ connectivities' = Some(W)
          /\ knn' = Some(W.sparse)
          /\ number_connected_components' = Some(part.number)
          /\ connected_components' = part.components
    /\ ncalls' = ncalls + 1
    /\ Z' = None /\ transitions_sym' = None
    /\ UNCHANGED <<n_obs, n_neighbors, distances, knn_indices, call, uns, data, op>>

\* compute_neighbors, at the level of the graph it leaves: new connectivities
\* and the partition derived from them; the spectral data are not touched
ComputeNeighborsGraph(W) ==
    /\ ncalls < MaxCalls
    /\ LET part == PartitionOfGraph(W, n_obs, connected_components)
       IN /\ connectivities' = Some(W)
          /\ knn' = Some(W.sparse)
          /\ number_connected_components' = Some(part.number)
          /\ connected_components' = part.components
    /\ ncalls' = ncalls + 1
    /\ UNCHANGED <<n_obs, n_neighbors, distances, knn_indices, call, uns, data>>
    /\ UNCHANGED <<Z, transitions_sym, op>>

\* eigenvalues come in units of 1/10000: one decaying value, one stationary
EigenValueSamples == {8000, StationaryCutoff}

EigenData(n, c) ==
    {[values |-> ev, basis |-> psi] :
        ev \in [1..c -> EigenValueSamples],
        psi \in [Obs(n) -> [1..c -> 0..MaxPsi]]}

\* ev / (1 - ev)
DecayWeight(ev) == ev \div (10000 - ev)

RECURSIVE SumOver(_, _)
SumOver(f, S) ==
    IF S = {} THEN 0
    ELSE LET l == CHOOSE x \in S : TRUE IN f[l] + SumOver(f, S \ {l})

GetDptRow_NoMask(i) ==
    LET ev == Val(eigen_values)
        psi == Val(eigen_basis)
        term(j) == [l \in DOMAIN ev |->
            IF ev[l] < StationaryCutoff
            THEN (DecayWeight(ev[l]) * (psi[i][l] - psi[j][l]))
                 * (DecayWeight(ev[l]) * (psi[i][l] - psi[j][l]))
            ELSE (psi[i][l] - psi[j][l]) * (psi[i][l] - psi[j][l])]
    IN [j \in Obs(n_obs) |-> Root(SumOver(term(j), DOMAIN ev))]

\* _get_dpt_row: the decaying and the stationary sums, then the mask of the
\* other components' entries when more than one component is recorded
GetDptRow(i) ==
    LET ev == Val(eigen_values)
        psi == Val(eigen_basis)
        masked == Val(number_connected_components) > 1
        labels == Val(connected_components).labels
        term(j) == [l \in DOMAIN ev |->
            IF ev[l] < StationaryCutoff
            THEN (DecayWeight(ev[l]) * (psi[i][l] - psi[j][l]))
                 * (DecayWeight(ev[l]) * (psi[i][l] - psi[j][l]))
            ELSE (psi[i][l] - psi[j][l]) * (psi[i][l] - psi[j][l])]
    IN [j \in Obs(n_obs) |->
            IF masked /\ labels[j] # labels[i]
            THEN Inf
            ELSE Root(SumOver(term(j), DOMAIN ev))]

\* the finite entries of a row are the roots; np.max runs over them
FiniteMax(row) == SetMax({row[j].of : j \in {q \in DOMAIN row : row[q].kind = "sqrt"}})

\* row / max: inf stays inf, 0 / 0 is nan
Normalised(row) ==
    [j \in DOMAIN row |->
        IF row[j].kind = "inf" THEN Inf
        ELSE IF FiniteMax(row) = 0 THEN NaN
        ELSE Ratio(row[j].of, FiniteMax(row))]

\* ---------------------------------------------------------------------------
\* compute_transitions, compute_eigen and the reads of what they build.  Matrix
\* entries are non-negative and are kept by their class: "0", "+" (positive
\* and finite), "inf" and "nan".  A matrix is [sparse, m], m the set of its
\* stored entries <<i, j, class>>: one per pair for a dense matrix, the stored
\* ones of a sparse one; a product of sparse matrices visits stored entries only.

AbsMul(a, b) ==
    IF a = "nan" \/ b = "nan" THEN "nan"
    ELSE IF {a, b} = {"0", "inf"} THEN "nan"
    ELSE IF a = "0" \/ b = "0" THEN "0"
    ELSE IF a = "inf" \/ b = "inf" THEN "inf"
    ELSE "+"

\* the sum of terms of the given classes (no term: 0)
AbsSum(classes) ==
    IF "nan" \in classes THEN "nan"
    ELSE IF "inf" \in classes THEN "inf"
    ELSE IF "+" \in classes THEN "+"
    ELSE "0"

\* 1.0 / a: numpy warns on a division by zero and gives inf
AbsInv(a) ==
    CASE a = "0" -> "inf" [] a = "inf" -> "0" [] a = "+" -> "+" [] a = "nan" -> "nan"

AllPairs(n) == Obs(n) \X Obs(n)

\* A @ B
MatMul(A, B, n) ==
    LET terms(i, j) ==
            {AbsMul(x[1][3], x[2][3]) :
                x \in {y \in A.m \X B.m :
                          y[1][1] = i /\ y[1][2] = y[2][1] /\ y[2][2] = j}}
    IN [sparse |-> A.sparse,
        m |-> {<<p[1], p[2], AbsSum(terms(p[1], p[2]))>> :
                  p \in {q \in AllPairs(n) : terms(q[1], q[2]) # {}}}]

\* A.sum(axis=0)
ColSums(A, n) ==
    [j \in Obs(n) |-> AbsSum({x[3] : x \in {y \in A.m : y[2] = j}})]

\* np.diag(v) and scipy.sparse.spdiags(v, 0, n, n)
Diagonal(v, sparse, n) ==
    [sparse |-> sparse,
     m |-> {<<p[1], p[2], IF p[1] = p[2] THEN v[p[1]] ELSE "0">> :
               p \in IF sparse THEN {<<i, i>> : i \in Obs(n)} ELSE AllPairs(n)}]

\* np.diag(M) and the diagonal a sparse diagonal matrix stores
DiagonalOf(Mx, n) ==
    [i \in Obs(n) |-> (CHOOSE x \in Mx.m : x[1] = i /\ x[2] = i)[3]]

\* the connectivity matrix of a graph: a positive weight on every linked pair
\* (the diagonal is taken as 0, as in the umap graph)
WeightMatrix(W, n) ==
    [sparse |-> W.sparse,
     m |-> {<<p[1], p[2], IF Linked(W.edges, p[1], p[2]) THEN "+" ELSE "0">> :
               p \in IF W.sparse
                     THEN {q \in AllPairs(n) : Linked(W.edges, q[1], q[2])}
                     ELSE AllPairs(n)}]

\* lines 774-796: Z and Z @ K @ Z; the square root keeps the class of z
TransitionsOf(W, density_normalize, n) ==
    LET Wm == WeightMatrix(W, n)
        q == ColSums(Wm, n)
        Q == Diagonal([i \in Obs(n) |-> AbsInv(q[i])], W.sparse, n)
        K == IF density_normalize THEN MatMul(MatMul(Q, Wm, n), Q, n) ELSE Wm
        z == ColSums(K, n)
        Zm == Diagonal([i \in Obs(n) |-> AbsInv(z[i])], K.sparse, n)
    IN [Z |-> Zm, transitions_sym |-> MatMul(MatMul(Zm, K, n), Zm, n)]

\* lines 546-564: Z @ transitions_sym @ Zinv
TransitionsValue(n) ==
    LET Zm == Val(Z)
        d == DiagonalOf(Zm, n)
        Zinv == Diagonal([i \in Obs(n) |-> AbsInv(d[i])], Zm.sparse, n)
    IN MatMul(MatMul(Zm, Val(transitions_sym), n), Zinv, n)

Outcome_(name, raised, returned) ==
    Some([name |-> name, raised |-> raised, returned |-> returned])

\* compute_transitions; without connectivities W.sum fails on None
ComputeTransitions(density_normalize) ==
    /\ IF connectivities = None
       THEN /\ op' = Outcome_("compute_transitions", "AttributeError", None)
            /\ UNCHANGED <<Z, transitions_sym>>
       ELSE LET t == TransitionsOf(Val(connectivities), density_normalize, n_obs)
            IN /\ Z' = Some(t.Z)
               /\ transitions_sym' = Some(t.transitions_sym)
               /\ op' = Outcome_("compute_transitions", "none", None)
    /\ UNCHANGED <<neighborsVars, dptVars, onflyVars>>

\* the property transitions: self.Z is an attribute only after compute_transitions
ReadTransitions ==
    /\ op' = IF Z = None THEN Outcome_("transitions", "AttributeError", None)
             ELSE Outcome_("transitions", "none", Some(TransitionsValue(n_obs)))
    /\ UNCHANGED <<Z, transitions_sym, neighborsVars, dptVars, onflyVars>>

\* the properties eigen_values and eigen_basis return the attribute as it is
ReadEigenValues ==
    /\ op' = Outcome_("eigen_values", "none", Some(eigen_values))
    /\ UNCHANGED <<Z, transitions_sym, neighborsVars, dptVars, onflyVars>>

ReadEigenBasis ==
    /\ op' = Outcome_("eigen_basis", "none", Some(eigen_basis))
    /\ UNCHANGED <<Z, transitions_sym, neighborsVars, dptVars, onflyVars>>

\* ---------------------------------------------------------------------------
\* The conversions between (knn_indices, knn_dists) and a sparse distance
\* matrix.  A coo or csr matrix under construction is the sequence of its
\* triplets [row, col, val]; the finished matrix is [sparse, rows] as above.

\* one row of a search result over the distances M: slots filled with distinct
\* columns by increasing distance, the slots the search left open holding -1
\* (their distance, infinite, is never read)
KnnRows(M, i, n, kk) ==
    {[indices |-> [p \in 1..kk |-> IF p <= Len(t) THEN t[p] ELSE -1],
      dists |-> [p \in 1..kk |-> IF p <= Len(t) THEN M[i][t[p]] ELSE Inf]] :
        t \in {u \in UNION {Arrangements(Obs(n), f) : f \in 0..kk} :
                  \A p, q \in DOMAIN u : p < q => M[i][u[p]] <= M[i][u[q]]}}

\* the rows 0 .. upto-1 of a search result, one after the other
RECURSIVE KnnRowSeqs(_, _, _, _)
KnnRowSeqs(M, n, kk, upto) ==
    IF upto = 0 THEN {<<>>}
    ELSE {Append(r, row) : r \in KnnRowSeqs(M, n, kk, upto - 1),
                           row \in KnnRows(M, upto - 1, n, kk)}

\* the pairs (knn_indices, knn_dists) of n observations with kk slots each
KnnResults(n, kk) ==
    UNION {{[knn_indices |-> [i \in Obs(n) |-> r[i + 1].indices],
             knn_dists |-> [i \in Obs(n) |-> r[i + 1].dists],
             n_obs |-> n, n_neighbors |-> kk] : r \in KnnRowSeqs(M, n, kk, n)} :
           M \in DistanceMatrices(n)}

\* lines 277-292: slot i * n_neighbors + j; a slot skipped keeps (0, 0, 0.0)
UmapTriplets(a) ==
    [s \in 1..(a.n_obs * a.n_neighbors) |->
        LET i == (s - 1) \div a.n_neighbors
            j == ((s - 1) % a.n_neighbors) + 1
        IN IF a.knn_indices[i][j] = -1
           THEN [row |-> 0, col |-> 0, val |-> 0]
           ELSE [row |-> i, col |-> a.knn_indices[i][j],
                 val |-> IF a.knn_indices[i][j] = i THEN 0 ELSE a.knn_dists[i][j]]]

\* lines 328-333: row i holds the slots indptr[i] .. indptr[i+1] - 1
NumpyTriplets(a) ==
    [s \in 1..(a.n_obs * a.n_neighbors) |->
        LET i == (s - 1) \div a.n_neighbors
            j == ((s - 1) % a.n_neighbors) + 1
        IN [row |-> i, col |-> a.knn_indices[i][j], val |-> a.knn_dists[i][j]]]

IsNonZero(t) == t.val # 0

EliminateZeros_Keep(triplets) == triplets

\* eliminate_zeros(): every stored entry whose value is 0 is dropped
EliminateZeros(triplets) == SelectSeq(triplets, IsNonZero)

\* tocsr(): the stored columns of each row, entries of one position summed
ToCsr(triplets, n) ==
    [sparse |-> TRUE,
     rows |-> [i \in Obs(n) |->
        [c \in {triplets[s].col : s \in {u \in DOMAIN triplets : triplets[u].row = i}} |->
            SumOver([s \in DOMAIN triplets |-> triplets[s].val],
                    {u \in DOMAIN triplets :
                        triplets[u].row = i /\ triplets[u].col = c})]]]

\* get_sparse_matrix_from_indices_distances_umap
GetSparseMatrixFromIndicesDistancesUmap ==
    /\ IsSome(conv_args) /\ conv_result = None
    /\ Val(conv_args).kind = "knn"
    /\ conv_result' = Some([by |-> "umap",
                            D |-> ToCsr(EliminateZeros(UmapTriplets(Val(conv_args))),
                                        Val(conv_args).n_obs)])
    /\ UNCHANGED <<conv_args, adata, rp_forest>>

\* get_sparse_matrix_from_indices_distances_numpy, which is handed full rows
GetSparseMatrixFromIndicesDistancesNumpy ==
    /\ IsSome(conv_args) /\ conv_result = None
    /\ Val(conv_args).kind = "knn"
    /\ \A i \in Obs(Val(conv_args).n_obs) : -1 \notin Range(Val(conv_args).knn_indices[i])
    /\ conv_result' = Some([by |-> "numpy",
                            D |-> ToCsr(EliminateZeros(NumpyTriplets(Val(conv_args))),
                                        Val(conv_args).n_obs)])
    /\ UNCHANGED <<conv_args, adata, rp_forest>>

\* lines 338-357: column 0 is the row's own index at distance 0, the other
\* slots as SparseRowChoices gives them; a row without a choice raises
IndicesDistancesFromSparse(Dm, kk) ==
    IF \E i \in DOMAIN Dm.rows : SparseRowChoices(Dm.rows[i], kk) = {}
    THEN {[by |-> "from_sparse", raised |-> "ValueError"]}
    ELSE {[by |-> "from_sparse", raised |-> "none",
           indices |-> [i \in DOMAIN Dm.rows |-> <<i>> \o f[i]],
           distances |-> [i \in DOMAIN Dm.rows |->
                            <<0>> \o [p \in 1..(kk - 1) |-> Dm.rows[i][f[i][p]]]]] :
            f \in SparseIndices(Dm, kk)}

\* get_indices_distances_from_sparse_matrix
GetIndicesDistancesFromSparseMatrix ==
    /\ IsSome(conv_args) /\ conv_result = None
    /\ Val(conv_args).kind = "sparse"
    /\ \E r \in IndicesDistancesFromSparse(Val(conv_args).D, Val(conv_args).n_neighbors) :
        conv_result' = Some(r)
    /\ UNCHANGED <<conv_args, adata, rp_forest>>

\* the arguments of one conversion
ConvertInit ==
    /\ \E n \in 1..MaxCells : \E kk \in 1..n :
        \/ \E a \in KnnResults(n, kk) :
            conv_args = Some([kind |-> "knn", knn_indices |-> a.knn_indices,
                              knn_dists |-> a.knn_dists, n_obs |-> n,
                              n_neighbors |-> kk])
        \/ \E d \in SparseDistanceMatrices(n) :
            conv_args = Some([kind |-> "sparse", D |-> d, n_neighbors |-> kk])
    /\ conv_result = None /\ adata = None /\ rp_forest = None

\* ---------------------------------------------------------------------------
\* The root: _init_iroot and _set_iroot_via_xroot.  adata holds what they read:
\* n_obs, n_vars, the rows of X, and the optional uns['iroot'], uns['xroot']
\* and var['xroot'] (a column of var has one entry per feature).

Vectors(len) == [1..len -> 0..MaxPsi]

\* diff @ diff for row i of X
SquaredDistance(x, xroot) ==
    SumOver([l \in DOMAIN x |-> (x[l] - xroot[l]) * (x[l] - xroot[l])], DOMAIN x)

\* lines 925-933 from observation i on: the first strict improvement wins, and
\* the scan stops at a distance of 0 (the initial 1e10 exceeds every distance)
RECURSIVE ScanRoot(_, _, _, _, _)
ScanRoot(a, xroot, i, best, started) ==
    IF i >= a.n_obs THEN best
    ELSE LET dsq == SquaredDistance(a.X[i], xroot)
         IN IF ~started \/ dsq < SquaredDistance(a.X[best], xroot)
            THEN IF dsq = 0 THEN i ELSE ScanRoot(a, xroot, i + 1, i, TRUE)
            ELSE ScanRoot(a, xroot, i + 1, best, started)

\* lines 920-937: the error raised and the root set
SetIrootViaXrootOf(a, xroot) ==
    IF a.n_vars # Len(xroot)
    THEN [raised |-> "ValueError", iroot |-> None]
    ELSE [raised |-> "none", iroot |-> Some(ScanRoot(a, xroot, 0, 0, FALSE))]

\* lines 867-869: the reference vector _init_iroot picks up
PickedXroot(a) == IF IsSome(a.uns_xroot) THEN a.uns_xroot ELSE a.var_xroot

\* lines 855-872
InitIrootOf(a) ==
    IF IsSome(a.uns_iroot)
    THEN [raised |-> "none",
          iroot |-> IF Val(a.uns_iroot) >= a.n_obs THEN None ELSE a.uns_iroot]
    ELSE IF IsSome(PickedXroot(a)) /\ Len(Val(PickedXroot(a))) = a.n_vars
    THEN SetIrootViaXrootOf(a, Val(PickedXroot(a)))
    ELSE [raised |-> "none", iroot |-> None]

\* Neighbors(adata), line 476
InitIroot ==
    /\ IsSome(adata) /\ op = None
    /\ iroot' = InitIrootOf(Val(adata)).iroot
    /\ op' = Some([name |-> "_init_iroot", raised |-> InitIrootOf(Val(adata)).raised,
                   xroot |-> PickedXroot(Val(adata))])
    /\ UNCHANGED <<adata, Z, transitions_sym, eigen_values, eigen_basis, pseudotime,
                   pt_rows>>

\* _set_iroot_via_xroot(xroot) on the constructed object; a raise leaves iroot
SetIrootViaXroot(xroot) ==
    /\ IsSome(adata) /\ IsSome(op)
    /\ LET r == SetIrootViaXrootOf(Val(adata), xroot)
       IN /\ iroot' = IF r.raised = "none" THEN r.iroot ELSE iroot
          /\ op' = Some([name |-> "_set_iroot_via_xroot", raised |-> r.raised,
                         xroot |-> Some(xroot)])
    /\ UNCHANGED <<adata, Z, transitions_sym, eigen_values, eigen_basis, pseudotime,
                   pt_rows>>

\* the data a Neighbors object is about to be constructed over
RootInit ==
    /\ \E n \in 1..MaxCells : \E nv \in 1..MaxVars :
        \E x \in [Obs(n) -> Vectors(nv)] :
        \E ui \in {None} \cup {Some(i) : i \in (-1)..n} :
        \E ux \in {None} \cup {Some(v) : v \in UNION {Vectors(len) : len \in 1..MaxVars}} :
        \E vx \in {None} \cup {Some(v) : v \in Vectors(nv)} :
            /\ adata = Some([n_obs |-> n, n_vars |-> nv, X |-> x, uns_iroot |-> ui,
                             uns_xroot |-> ux, var_xroot |-> vx])
            /\ n_obs = n
    /\ n_neighbors = None /\ knn = None /\ distances = None /\ connectivities = None
    /\ number_connected_components = None /\ connected_components = None
    /\ knn_indices = None /\ call = None /\ ncalls = 0 /\ uns = None /\ data = None
    /\ DptOff /\ TransOff
    /\ rp_forest = None /\ conv_args = None /\ conv_result = None

\* ---------------------------------------------------------------------------
\* OnFlySymMatrix.  The parent M and a view share the mapping rows; a view
\* carries its restrict_array (global indices, kept as a sequence) and shape.

GlobalIndex_Identity(R, a) == a

\* lines 427-431, 439-443: the global index of a local one
GlobalIndex(R, a) == IF R = None THEN a ELSE Val(R)[a + 1]

GetItem_NoCache(cache, R, index) ==
    LET g == GlobalIndex(R, index[1])
        filled == (g :> GetDptRow(g)) @@ cache
        row == filled[g]
    IN [rows |-> filled,
        called |-> {g},
        result |-> IF Len(index) = 1
                   THEN IF R = None THEN row
                        ELSE [b \in Obs(Len(Val(R))) |-> row[Val(R)[b + 1]]]
                   ELSE row[GlobalIndex(R, index[2])]]

\* __getitem__ with index <<a>> or <<a, b>>: the cache it leaves, the global
\* indices get_row was called with, and the value returned
GetItem(cache, R, index) ==
    LET g == GlobalIndex(R, index[1])
        hit == g \in DOMAIN cache
        filled == IF hit THEN cache ELSE (g :> GetDptRow(g)) @@ cache
        row == filled[g]
    IN [rows |-> filled,
        called |-> IF hit THEN {} ELSE {g},
        result |-> IF Len(index) = 1
                   THEN IF R = None THEN row
                        ELSE [b \in Obs(Len(Val(R))) |-> row[Val(R)[b + 1]]]
                   ELSE row[GlobalIndex(R, index[2])]]

\* restrict: a new matrix over the same rows with index_array as restrict_array
RestrictedView(index_array) ==
    [restrict_array |-> index_array,
     shape |-> <<Len(index_array), Len(index_array)>>]

\* the index arrays a view is taken over: distinct global indices in any order
IndexArrays(n) ==
    UNION {Arrangements(Obs(n), len) : len \in 1..Min(n, MaxRestrict)}

\* the in-range indices of a matrix with size rows: single ones and pairs
Indices(size) ==
    {<<a>> : a \in Obs(size)} \cup {<<a, b>> : a \in Obs(size), b \in Obs(size)}

Restrict(index_array) ==
    /\ view' = Some(RestrictedView(index_array))
    /\ last' = None
    /\ UNCHANGED <<rows, get_row_log, neighborsVars, dptVars>>

\* a lookup on the parent ("M") or on the view held ("V")
Lookup(through, index) ==
    /\ through = "V" => IsSome(view)
    /\ LET R == IF through = "V" THEN Some(Val(view).restrict_array) ELSE None
           size == IF through = "V" THEN Val(view).shape[1] ELSE n_obs
           out == GetItem(rows, R, index)
       IN /\ index \in Indices(size)
          /\ rows' = out.rows
          /\ get_row_log' =
                [g \in Obs(n_obs) |->
                    IF g \in out.called
                    THEN Append(get_row_log[g], out.rows[g])
                    ELSE get_row_log[g]]
          /\ last' = Some([through |-> through, index |-> index,
                           result |-> out.result])
    /\ UNCHANGED <<view, neighborsVars, dptVars>>

\* lines 876-886 on an object without a partition or without spectral data:
\* None > 1 raises TypeError, None.size raises AttributeError
DptRowError ==
    IF number_connected_components = None THEN "TypeError"
    ELSE IF eigen_values = None THEN "AttributeError"
    ELSE "none"

\* self.distances_dpt[i]: the property builds a new matrix for the lookup
DistancesDptLookup(i) ==
    /\ last' = IF DptRowError # "none"
               THEN Some([through |-> "new", index |-> <<i>>,
                          raised |-> DptRowError])
               ELSE Some([through |-> "new", index |-> <<i>>,
                          result |-> GetItem(<<>>, None, <<i>>).result])
    /\ UNCHANGED <<rows, view, get_row_log, neighborsVars, dptVars>>

\* _set_pseudotime: a copy of row iroot of a new distances_dpt, divided by its
\* largest finite entry; pt_rows is the cache of that matrix after the call
SetPseudotime ==
    /\ IsSome(iroot)
    /\ LET out == GetItem(<<>>, None, <<Val(iroot)>>)
       IN /\ pseudotime' = Some(Normalised(out.result))
          /\ pt_rows' = Some(out.rows)
    /\ UNCHANGED <<eigen_values, eigen_basis, iroot, neighborsVars, onflyVars>>

\* compute_eigen: line 829 refuses to run before compute_transitions; else the
\* solver's values and vectors are stored (lines 851-852)
ComputeEigen(e) ==
    /\ IF transitions_sym = None
       THEN /\ op' = Some([name |-> "compute_eigen", raised |-> "ValueError",
                           returned |-> None])
            /\ UNCHANGED <<eigen_values, eigen_basis>>
       ELSE /\ eigen_values' = Some(e.values)
            /\ eigen_basis' = Some(e.basis)
            /\ op' = Some([name |-> "compute_eigen", raised |-> "none",
                           returned |-> None])
    /\ UNCHANGED <<Z, transitions_sym, iroot, pseudotime, pt_rows, neighborsVars,
                   onflyVars>>

\* two decompositions with one decaying component, basis[i] = s * i: no row
\* of one equals the same row of the other
SpectraSamples(n) ==
    {[values |-> <<8000>>, basis |-> [i \in Obs(n) |-> <<s * i>>]] :
        s \in {1, 2}}

\* a Neighbors object constructed over stored connectivities and a stored
\* diffusion map (lines 474-528), iroot from _init_iroot
DptInit ==
    /\ n_obs \in 1..MaxObs
    /\ \E W \in Graphs(n_obs) :
        /\ connectivities = Some(W)
        /\ knn = Some(W.sparse)
        /\ number_connected_components = Some(PartitionOfGraph(W, n_obs, None).number)
        /\ connected_components = PartitionOfGraph(W, n_obs, None).components
    /\ \E c \in 1..MaxComps : \E e \in EigenData(n_obs, c) :
        /\ eigen_values = Some(e.values)
        /\ eigen_basis = Some(e.basis)
    /\ iroot \in {None} \cup {Some(i) : i \in Obs(n_obs)}
    /\ pseudotime = None /\ pt_rows = None
    /\ n_neighbors = None /\ distances = None /\ knn_indices = None
    /\ call = None /\ ncalls = 0 /\ uns = None /\ data = None

\* the same object over one component, after compute_transitions, with
\* observation 0 as root, and M = distances_dpt held by the caller
OnFlyInit ==
    /\ n_obs = MaxCells
    /\ connectivities = Some(DenseGraph(n_obs))
    /\ knn = Some(FALSE)
    /\ number_connected_components = Some(1)
    /\ connected_components = None
    /\ \E e \in SpectraSamples(n_obs) :
        /\ eigen_values = Some(e.values)
        /\ eigen_basis = Some(e.basis)
    /\ iroot = Some(0)
    /\ pseudotime = None /\ pt_rows = None
    /\ n_neighbors = None /\ distances = None /\ knn_indices = None
    /\ call = None /\ ncalls = 0 /\ uns = None /\ data = None
    /\ Z = Some(TransitionsOf(DenseGraph(n_obs), TRUE, n_obs).Z)
    /\ transitions_sym = Some(TransitionsOf(DenseGraph(n_obs), TRUE, n_obs).transitions_sym)
    /\ op = None
    /\ rows = <<>> /\ view = None /\ last = None
    /\ get_row_log = [g \in Obs(n_obs) |-> <<>>]

\* ---------------------------------------------------------------------------
\* _make_forest_dict and _rp_forest_generate.  A tree is a FlatTree: one array
\* per field, kept as the sequence of its rows; a string is iterated as the
\* sequence of its characters.

FlatTreeFields == <<"hyperplanes", "offsets", "children", "indices">>

Characters(str) ==
    CASE str = "hyperplanes" ->
            <<"h", "y", "p", "e", "r", "p", "l", "a", "n", "e", "s">>
      [] str = "offsets" -> <<"o", "f", "f", "s", "e", "t", "s">>
      [] str = "children" -> <<"c", "h", "i", "l", "d", "r", "e", "n">>
      [] str = "indices" -> <<"i", "n", "d", "i", "c", "e", "s">>

\* forests of 1..MaxTrees trees; each array has 1..MaxRows rows, and the row
\* at position r of tree t holds 10 * t + r, so no two rows of a field agree
Forests ==
    UNION {[1..nt -> [Range(FlatTreeFields) -> 1..MaxRows]] : nt \in 1..MaxTrees}

TreeArray(t, size) == [r \in 1..size |-> 10 * t + r]

ForestOf(sizes) ==
    [t \in DOMAIN sizes |->
        [prop \in Range(FlatTreeFields) |-> TreeArray(t, sizes[t][prop])]]

RECURSIVE Concat(_, _)
Concat(arrays, upto) ==
    IF upto = 0 THEN <<>> ELSE Concat(arrays, upto - 1) \o arrays[upto]

\* lines 383-403: per field, the offsets at which each tree starts and the
\* rows of all trees in order
MakeForestDictOf(f) ==
    [prop \in Range(FlatTreeFields) |->
        LET arrays == [t \in DOMAIN f |-> f[t][prop]]
        IN [start |-> [t \in DOMAIN f |-> Len(Concat(arrays, t - 1))],
            data |-> Concat(arrays, Len(f))]]

\* data[start:end]
Slice(dat, start, end) == SubSeq(dat, start + 1, end)

\* line 132: props = FlatTree._fields[0], and what `for prop in props` visits
FieldsIterated == Characters(FlatTreeFields[1])

\* one pass of `for prop in props` and FlatTree(*tree) for tree i (0-based),
\* sliced up to the next start or, for the last tree, to the end
BuildTree(d, i, isLast) ==
    LET props == FieldsIterated
        missing == {k \in DOMAIN props : props[k] \notin DOMAIN d}
        piece(prop) ==
            Slice(d[prop].data, d[prop].start[i + 1],
                  IF isLast THEN Len(d[prop].data) ELSE d[prop].start[i + 2])
    IN IF missing # {} THEN [raised |-> "KeyError"]
       ELSE IF Len(props) # Len(FlatTreeFields) THEN [raised |-> "TypeError"]
       ELSE [raised |-> "none",
             tree |-> [prop \in Range(FlatTreeFields) |->
                        piece(props[CHOOSE k \in DOMAIN FlatTreeFields :
                                        FlatTreeFields[k] = prop])]]

\* the trees the generator yields until it is exhausted or raises
RECURSIVE Yielded(_, _, _)
Yielded(d, i, num_trees) ==
    LET built == BuildTree(d, i, i = num_trees)
    IN IF built.raised # "none" THEN [trees |-> <<>>, raised |-> built.raised]
       ELSE IF i = num_trees THEN [trees |-> <<built.tree>>, raised |-> "none"]
       ELSE LET rest == Yielded(d, i + 1, num_trees)
            IN [trees |-> <<built.tree>> \o rest.trees, raised |-> rest.raised]

\* lines 131-147, iterated to the end
RpForestGenerateOf(d) ==
    Yielded(d, 0, Len(d[FlatTreeFields[1]].start) - 1)

MakeForestDict ==
    /\ IsSome(forest) /\ rp_forest_dict = None
    /\ rp_forest_dict' = Some(MakeForestDictOf(Val(forest)))
    /\ UNCHANGED <<forest, regenerated>>

RpForestGenerate ==
    /\ IsSome(rp_forest_dict) /\ regenerated = None
    /\ regenerated' = Some(RpForestGenerateOf(Val(rp_forest_dict)))
    /\ UNCHANGED <<forest, rp_forest_dict>>

ForestInit ==
    /\ \E sizes \in Forests : forest = Some(ForestOf(sizes))
    /\ rp_forest_dict = None
    /\ regenerated = None

Init == NeighborsInit /\ DenseOff /\ DptOff /\ OnFlyOff /\ ForestOff
    /\ TransOff /\ SideOff

Next ==
    /\ \E requested \in NNeighborsValues, k \in BOOLEAN, method \in Methods,
          metric \in Metrics, write \in BOOLEAN :
           ComputeNeighbors(requested, k, method, metric, write)
    /\ UNCHANGED <<uns, denseVars, dptVars, onflyVars, forestVars, transVars, sideVars>>

Spec == Init /\ [][Next]_vars

\* the Neighbors object is not built
NeighborsOff ==
    /\ n_obs = 0
    /\ n_neighbors = None /\ knn = None /\ distances = None /\ connectivities = None
    /\ number_connected_components = None /\ connected_components = None
    /\ knn_indices = None /\ call = None /\ ncalls = 0 /\ uns = None /\ data = None

(***************************************************************************)
(* SpecDense: the exact dense search on every small distance matrix.       *)
(***************************************************************************)
InitDense == DenseInit /\ NeighborsOff /\ DptOff /\ OnFlyOff /\ ForestOff
    /\ TransOff /\ SideOff

NextDense ==
    GetIndicesDistancesFromDenseMatrix
    /\ UNCHANGED <<neighborsVars, dptVars, onflyVars, forestVars, transVars,
                   sideVars>>

SpecDense == InitDense /\ [][NextDense]_vars

(***************************************************************************)
(* SpecGauss: the Gaussian kernel on every small distance matrix.          *)
(***************************************************************************)
InitGauss == GaussInit /\ DenseOff /\ DptOff /\ OnFlyOff /\ ForestOff
    /\ TransOff /\ SideOff

NextGauss ==
    ComputeConnectivitiesDiffmap
    /\ UNCHANGED <<denseVars, dptVars, onflyVars, forestVars, transVars, sideVars>>

SpecGauss == InitGauss /\ [][NextGauss]_vars

\* ---------------------------------------------------------------------------
\* Specification of the diffusion distances: the graph is recomputed and
\* distances_dpt is read

InitDpt == DptInit /\ iroot = None /\ DenseOff /\ OnFlyOff /\ ForestOff
    /\ TransOff /\ SideOff

NextDpt ==
    \/ /\ \E W \in Graphs(n_obs) : ComputeNeighborsGraph(W)
       /\ UNCHANGED <<denseVars, dptVars, onflyVars, forestVars, sideVars>>
    \/ /\ \E i \in Obs(n_obs) : DistancesDptLookup(i)
       /\ UNCHANGED <<denseVars, forestVars, transVars, sideVars>>

SpecDpt == InitDpt /\ [][NextDpt]_vars

\* ---------------------------------------------------------------------------
\* Specification of the pseudotime of an object with a root

InitPseudotime == DptInit /\ IsSome(iroot) /\ DenseOff /\ OnFlyOff /\ ForestOff
    /\ TransOff /\ SideOff

NextPseudotime ==
    SetPseudotime /\ UNCHANGED <<denseVars, forestVars, transVars, sideVars>>

SpecPseudotime == InitPseudotime /\ [][NextPseudotime]_vars

\* ---------------------------------------------------------------------------
\* Specification of a held OnFlySymMatrix, its views and the pseudotime

InitOnFly == OnFlyInit /\ DenseOff /\ ForestOff /\ SideOff

NextOnFly ==
    \/ /\ \E index_array \in IndexArrays(n_obs) : Restrict(index_array)
       /\ UNCHANGED <<denseVars, forestVars, transVars, sideVars>>
    \/ /\ \E through \in {"M", "V"} : \E index \in Indices(n_obs) :
            Lookup(through, index)
       /\ UNCHANGED <<denseVars, forestVars, transVars, sideVars>>
    \/ /\ \E e \in SpectraSamples(n_obs) : ComputeEigen(e)
       /\ UNCHANGED <<denseVars, forestVars, sideVars>>
    \/ SetPseudotime /\ UNCHANGED <<denseVars, forestVars, transVars, sideVars>>

SpecOnFly == InitOnFly /\ [][NextOnFly]_vars

\* ---------------------------------------------------------------------------
\* Specification of the forest round trip

InitForest == ForestInit /\ NeighborsOff /\ DenseOff /\ DptOff /\ OnFlyOff
    /\ TransOff /\ SideOff

NextForest ==
    \/ /\ MakeForestDict
       /\ UNCHANGED <<neighborsVars, denseVars, dptVars, onflyVars, transVars, sideVars>>
    \/ /\ RpForestGenerate
       /\ UNCHANGED <<neighborsVars, denseVars, dptVars, onflyVars, transVars, sideVars>>

SpecForest == InitForest /\ [][NextForest]_vars

\* ---------------------------------------------------------------------------
\* Specification of the build steps of one object: compute_neighbors,
\* compute_transitions, compute_eigen and the reads of their results

\* Neighbors(adata), lines 474-528: the stored graph and diffusion map, if any
LifecycleInit ==
    /\ n_obs \in 1..MaxObs
    /\ \/ /\ connectivities = None /\ knn = None
          /\ number_connected_components = None /\ connected_components = None
       \/ \E W \in StoredGraphs(n_obs) :
            /\ connectivities = Some(W)
            /\ knn = Some(W.sparse)
            /\ number_connected_components =
                   Some(PartitionOfGraph(W, n_obs, None).number)
            /\ connected_components = PartitionOfGraph(W, n_obs, None).components
    /\ \/ eigen_values = None /\ eigen_basis = None
       \/ \E e \in SpectraSamples(n_obs) :
            eigen_values = Some(e.values) /\ eigen_basis = Some(e.basis)
    /\ iroot = None /\ pseudotime = None /\ pt_rows = None
    /\ n_neighbors = None /\ distances = None /\ knn_indices = None
    /\ call = None /\ ncalls = 0 /\ uns = None /\ data = None
    /\ Z = None /\ transitions_sym = None /\ op = None

InitLifecycle == LifecycleInit /\ DenseOff /\ OnFlyOff /\ ForestOff /\ SideOff

NextLifecycle ==
    \/ /\ \E W \in Graphs(n_obs) : ComputeNeighborsGraph(W)
       /\ UNCHANGED <<denseVars, dptVars, onflyVars, forestVars, sideVars>>
    \/ /\ \E density_normalize \in BOOLEAN : ComputeTransitions(density_normalize)
       /\ UNCHANGED <<denseVars, forestVars, sideVars>>
    \/ /\ \E e \in SpectraSamples(n_obs) : ComputeEigen(e)
       /\ UNCHANGED <<denseVars, forestVars, sideVars>>
    \/ ReadTransitions /\ UNCHANGED <<denseVars, forestVars, sideVars>>
    \/ ReadEigenValues /\ UNCHANGED <<denseVars, forestVars, sideVars>>
    \/ ReadEigenBasis /\ UNCHANGED <<denseVars, forestVars, sideVars>>
    \/ /\ \E i \in Obs(n_obs) : DistancesDptLookup(i)
       /\ UNCHANGED <<denseVars, forestVars, transVars, sideVars>>

SpecLifecycle == InitLifecycle /\ [][NextLifecycle]_vars

\* ---------------------------------------------------------------------------
\* Specification of the build steps alone, on the smaller objects

InitRebuild == InitLifecycle /\ n_obs <= MaxCells

NextRebuild ==
    \/ /\ \E W \in Graphs(n_obs) : ComputeNeighborsGraph(W)
       /\ UNCHANGED <<denseVars, dptVars, onflyVars, forestVars, sideVars>>
    \/ /\ \E density_normalize \in BOOLEAN : ComputeTransitions(density_normalize)
       /\ UNCHANGED <<denseVars, forestVars, sideVars>>
    \/ /\ \E e \in SpectraSamples(n_obs) : ComputeEigen(e)
       /\ UNCHANGED <<denseVars, forestVars, sideVars>>

SpecRebuild == InitRebuild /\ [][NextRebuild]_vars

\* ---------------------------------------------------------------------------
\* Specification of the conversions: one call on each argument

InitConvert ==
    ConvertInit /\ NeighborsOff /\ DenseOff /\ DptOff /\ OnFlyOff /\ ForestOff
    /\ TransOff

NextConvert ==
    \/ /\ GetSparseMatrixFromIndicesDistancesUmap
       /\ UNCHANGED <<neighborsVars, denseVars, dptVars, onflyVars, forestVars, transVars>>
    \/ /\ GetSparseMatrixFromIndicesDistancesNumpy
       /\ UNCHANGED <<neighborsVars, denseVars, dptVars, onflyVars, forestVars, transVars>>
    \/ /\ GetIndicesDistancesFromSparseMatrix
       /\ UNCHANGED <<neighborsVars, denseVars, dptVars, onflyVars, forestVars, transVars>>

SpecConvert == InitConvert /\ [][NextConvert]_vars

\* ---------------------------------------------------------------------------
\* Specification of the root set-up: construction, then calls of
\* _set_iroot_via_xroot

InitRoot == RootInit /\ DenseOff /\ OnFlyOff /\ ForestOff

NextRoot ==
    \/ /\ InitIroot
       /\ UNCHANGED <<neighborsVars, denseVars, onflyVars, forestVars, rp_forest,
                      conv_args, conv_result>>
    \/ /\ \E xroot \in UNION {Vectors(len) : len \in 1..MaxVars} :
            SetIrootViaXroot(xroot)
       /\ UNCHANGED <<neighborsVars, denseVars, onflyVars, forestVars, rp_forest,
                      conv_args, conv_result>>

SpecRoot == InitRoot /\ [][NextRoot]_vars

\* ---------------------------------------------------------------------------
\* Specification of neighbors(): one run on each annotated data set

InitRun == RunInit /\ DenseOff /\ DptOff /\ OnFlyOff /\ ForestOff /\ TransOff

NextRun ==
    /\ \E requested \in NNeighborsValues, k \in BOOLEAN, method \in Methods,
          metric \in Metrics :
           NeighborsRun(requested, k, method, metric)
    /\ UNCHANGED <<denseVars, dptVars, onflyVars, forestVars, transVars>>

SpecRun == InitRun /\ [][NextRun]_vars

(***************************************************************************)
(* Claims about compute_neighbors, checked under Spec.                     *)
(***************************************************************************)
objectFields ==
    <<n_neighbors, knn, distances, connectivities,
      number_connected_components, connected_components>>

\* the configurations lines 643-646 reject, as the claims state them
Rejected(a) ==
    (a.method = "umap" /\ ~a.knn) \/ a.method \notin {"umap", "gauss"}

\* C1: a request above n_obs does not make the neighbor search fail and is
\* replaced by 1 + floor(n_obs/2) <= n_obs, which is the instance's n_neighbors
\* and the width of the index/distance arrays; a request of at most n_obs is
\* used unchanged.
C1_ClampedNeighbors ==
    (IsSome(call) /\ ~Rejected(Val(call).args)) =>
        LET requested == Val(call).args.n_neighbors
            used == IF requested > n_obs THEN 1 + (n_obs \div 2) ELSE requested
        IN  /\ Val(call).raised # "kth out of bounds"
            /\ n_neighbors = Some(used)
            /\ Val(call).search.width = used
            /\ requested > n_obs => used <= n_obs

C1_Witness ==
    /\ IsSome(call)
    /\ Val(call).raised = "none"
    /\ Val(call).args.n_neighbors > n_obs
    /\ n_obs = 3
    /\ n_neighbors = Some(2)
    /\ Val(call).search.width = 2

C3_SearchStrategy ==
    (IsSome(call) /\ Val(call).search.path # "none") =>
        LET a == Val(call).args
            s == Val(call).search
            exact == (a.metric = "euclidean" /\ n_obs < DenseLimit) \/ ~a.knn
            pre == n_obs < PrecomputeLimit /\ a.metric # "euclidean"
        IN  /\ s.path = "dense" <=> exact
            /\ s.path = "approx" <=> ~exact
            /\ s.path = "approx" =>
                  /\ (s.on = "pairwise_distances" /\ s.metric = "precomputed") <=> pre
                  /\ (s.on = "X" /\ s.metric = a.metric) <=> ~pre

C3_Witness ==
    /\ IsSome(call)
    /\ Val(call).search.path = "approx"
    /\ Val(call).search.on = "pairwise_distances"
    /\ n_obs = PrecomputeLimit - 1

(***************************************************************************)
(* Claims about the exact dense search, checked under SpecDense.           *)
(***************************************************************************)
\* C4: for every distance matrix with zero diagonal and non-negative entries
\* and every k <= n_obs, each row i of the result has knn_indices[i,0] = i and
\* knn_dists[i,0] = 0 and is sorted by increasing distance.
C4_SelfFirst ==
    IsSome(dense_result) =>
        \A i \in DOMAIN D :
            LET ind == Val(dense_result).indices[i]
                dis == Val(dense_result).distances[i]
            IN  /\ ind[1] = i
                /\ dis[1] = 0
                /\ \A p, q \in DOMAIN dis : p < q => dis[p] <= dis[q]

(***************************************************************************)
(* Claims about the Gaussian kernel, checked under SpecGauss.              *)
(***************************************************************************)
\* C5: the matrix _compute_connectivities_diffmap produces is symmetric,
\* W[i,j] = W[j,i] for all i, j (a nan equals nothing), on the dense and on the
\* sparse code path, for every neighbor graph (here: with n_neighbors >= 2, so
\* that every point has a neighbor slot besides itself).
C5_Symmetric ==
    (IsSome(call) /\ Val(call).raised = "none" /\ Val(n_neighbors) >= 2) =>
        LET W == Val(connectivities).m
        IN  \A i, j \in DOMAIN W : W[i][j] = W[j][i] /\ W[i][j].kind # "nan"

\* ---------------------------------------------------------------------------
\* C6, as stated.  For all observations i, j the distance distances_dpt[i][j]
\* is 0 on the diagonal and symmetric, it is +infinity whenever the labels i and
\* j carry in connected_components differ, and it is finite whenever they agree.
\* Fails: compute_neighbors with dense connectivities resets the count to 1 and
\* leaves the labels of the earlier sparse graph in place; the rows are then
\* not masked although the labels differ.
DistanceDpt(i, j) == GetItem(<<>>, None, <<i>>).result[j]

C7_PseudotimeRange ==
    IsSome(pseudotime) =>
        /\ \A j \in Obs(n_obs) :
            /\ Val(pseudotime)[j].kind \in {"inf", "ratio"}
            /\ Val(pseudotime)[j].kind = "ratio" =>
                /\ 0 <= Val(pseudotime)[j].num
                /\ Val(pseudotime)[j].num <= Val(pseudotime)[j].den
            /\ Val(pseudotime)[j] = Inf <=> Val(pt_rows)[Val(iroot)][j] = Inf
        /\ Val(pseudotime)[Val(iroot)].kind = "ratio"
        /\ Val(pseudotime)[Val(iroot)].num = 0

\* ---------------------------------------------------------------------------
\* C8.  Over any sequence of single-index and pair lookups on a matrix M and on
\* the views derived from it, with the spectral data recomputed in between:
\* get_row has been called at most once per global index; the cached row is the
\* row that call returned; the last lookup, through M or through the view,
\* returned exactly the values of that first row; and the matrix indexed by
\* _set_pseudotime still caches the unscaled row the pseudotime was divided from.
FirstRow(g) == get_row_log[g][1]

C8_RowComputedOnce ==
    /\ \A g \in Obs(n_obs) :
        /\ Len(get_row_log[g]) <= 1
        /\ g \in DOMAIN rows <=> Len(get_row_log[g]) = 1
        /\ g \in DOMAIN rows => rows[g] = FirstRow(g)
    /\ IsSome(last) =>
        LET R == IF Val(last).through = "V"
                 THEN Some(Val(view).restrict_array) ELSE None
            index == Val(last).index
            g == GlobalIndex(R, index[1])
        IN /\ Len(get_row_log[g]) = 1
           /\ Val(last).result =
                IF Len(index) = 2 THEN FirstRow(g)[GlobalIndex(R, index[2])]
                ELSE IF R = None THEN FirstRow(g)
                ELSE [b \in Obs(Len(Val(R))) |-> FirstRow(g)[GlobalIndex(R, b)]]
    /\ IsSome(pseudotime) =>
        /\ \A j \in Obs(n_obs) :
            Val(pt_rows)[Val(iroot)][j].kind \in {"sqrt", "inf"}
        /\ Val(pseudotime) = Normalised(Val(pt_rows)[Val(iroot)])

\* a row computed before the spectral data changed is returned, through the
\* view, after the change, where get_row would now give other values
C8_Witness ==
    /\ IsSome(last) /\ Val(last).through = "V" /\ Len(Val(last).index) = 1
    /\ LET g == GlobalIndex(Some(Val(view).restrict_array), Val(last).index[1])
       IN /\ rows[g] # GetDptRow(g)
          /\ Val(last).result =
                [b \in Obs(Len(Val(view).restrict_array)) |->
                    rows[g][Val(view).restrict_array[b + 1]]]
    /\ IsSome(pseudotime)

\* ---------------------------------------------------------------------------
\* C9.  For the view V = M.restrict(R) held and all local indices a, b in
\* range: V reports the shape (len(R), len(R)); V[a] is the row M[R[a]]
\* sub-selected to the columns R, so V[a][b] = M[R[a]][R[b]]; V[a, b] =
\* M[R[a], R[b]]; and what the last lookup through V returned is what M returns
\* for the global indices.
ViaM(index) == GetItem(rows, None, index)
ViaV(index) == GetItem(rows, Some(Val(view).restrict_array), index)

C9_RestrictedView ==
    IsSome(view) =>
        LET R == Val(view).restrict_array
        IN /\ Val(view).shape = <<Len(R), Len(R)>>
           /\ \A a, b \in Obs(Len(R)) :
                /\ DOMAIN ViaV(<<a>>).result = Obs(Len(R))
                /\ ViaV(<<a>>).result[b] = ViaM(<<R[a + 1]>>).result[R[b + 1]]
                /\ ViaV(<<a, b>>).result = ViaM(<<R[a + 1], R[b + 1]>>).result
                /\ ViaV(<<a>>).rows = ViaM(<<R[a + 1]>>).rows
           /\ (IsSome(last) /\ Val(last).through = "V") =>
                LET index == Val(last).index
                IN IF Len(index) = 2
                   THEN Val(last).result
                            = ViaM(<<R[index[1] + 1], R[index[2] + 1]>>).result
                   ELSE \A b \in Obs(Len(R)) :
                            Val(last).result[b]
                                = ViaM(<<R[index[1] + 1]>>).result[R[b + 1]]

\* a view that reorders the observations, read at a local index that differs
\* from its global index, with rows that tell the observations apart
C9_Witness ==
    /\ IsSome(view)
    /\ Len(Val(view).restrict_array) = 2
    /\ IsSome(last) /\ Val(last).through = "V"
    /\ Val(view).restrict_array[Val(last).index[1] + 1] # Val(last).index[1]
    /\ \A g \in Obs(n_obs) : g \in DOMAIN rows
    /\ rows[0] # rows[1]

\* ---------------------------------------------------------------------------
\* C10.  For every forest, iterating _rp_forest_generate over the result of
\* _make_forest_dict ends without an error and yields as many trees as the
\* forest has, in the same order, each with its four arrays equal to the
\* original tree's.  Fails for every forest: the generator iterates the
\* characters of the first field name and looks up the key "h".
C10_ForestRoundTrip ==
    IsSome(regenerated) =>
        /\ Val(regenerated).raised = "none"
        /\ Len(Val(regenerated).trees) = Len(Val(forest))
        /\ \A t \in DOMAIN Val(forest) : \A prop \in Range(FlatTreeFields) :
            Val(regenerated).trees[t][prop] = Val(forest)[t][prop]

(***************************************************************************)
(* Claims about the build steps, checked under SpecLifecycle and SpecRebuild. *)
(***************************************************************************)
NonFinite(Mx) == \E x \in Mx.m : x[3] \in {"inf", "nan"}

\* an observation whose column of the connectivity matrix sums to zero
ZeroDegree(W, n) == \E i \in Obs(n) : \A j \in Obs(n) : ~Linked(W.edges, i, j)

\* C11: a compute_transitions on connectivities in which some observation has
\* degree zero raises an error; it never completes and leaves Z or
\* transitions_sym with an infinite or undefined entry.
C11_ZeroDegreeRaises ==
    [][(/\ op' # op
        /\ Val(op').name = "compute_transitions"
        /\ IsSome(connectivities)
        /\ ZeroDegree(Val(connectivities), n_obs))
       => (/\ Val(op').raised # "none"
           /\ UNCHANGED <<Z, transitions_sym>>)]_vars

\* the state the claim excludes: compute_transitions completed and Z or
\* transitions_sym holds an entry that is not finite
C11_NonFiniteKept ==
    /\ IsSome(op) /\ Val(op).name = "compute_transitions" /\ Val(op).raised = "none"
    /\ NonFinite(Val(Z)) \/ NonFinite(Val(transitions_sym))

\* C12: a query made before its build step raises an error: transitions and
\* compute_eigen while compute_transitions has not run; eigen_values,
\* eigen_basis and a row of distances_dpt while no spectral decomposition exists.
C12_QueryBeforeBuild ==
    [][/\ (/\ op' # op
           /\ Val(op').name \in {"transitions", "compute_eigen"}
           /\ transitions_sym = None)
          => Val(op').raised # "none"
       /\ (/\ op' # op
           /\ Val(op').name \in {"eigen_values", "eigen_basis"}
           /\ eigen_values = None)
          => Val(op').raised # "none"
       /\ (last' # last /\ eigen_values = None)
          => "raised" \in DOMAIN Val(last')]_vars

\* C19: a compute_neighbors leaves Z, transitions_sym, eigen_values and
\* eigen_basis exactly as they were; of the object's fields it changes only
\* the graph and the partition.
C19_DerivedKept ==
    [][ncalls' # ncalls =>
        /\ UNCHANGED <<Z, transitions_sym, eigen_values, eigen_basis>>
        /\ UNCHANGED <<n_obs, iroot, pseudotime>>]_vars

\* compute_neighbors ran on an object holding transitions and a decomposition,
\* and the transitions kept are not those of the new graph
C19_Witness ==
    /\ ncalls = 1
    /\ IsSome(Z) /\ IsSome(transitions_sym)
    /\ IsSome(eigen_values) /\ IsSome(eigen_basis)
    /\ IsSome(op) /\ Val(op).name = "compute_eigen" /\ Val(op).raised = "none"
    /\ ~NonFinite(Val(Z)) /\ ~NonFinite(Val(transitions_sym))
    /\ \A density_normalize \in BOOLEAN :
        Val(transitions_sym) #
            TransitionsOf(Val(connectivities), density_normalize, n_obs).transitions_sym

(***************************************************************************)
(* Claims about the conversions, checked under SpecConvert.                 *)
(***************************************************************************)
\* the slots of row i of the arguments that name column c
SlotsOf(a, i, c) == {j \in 1..a.n_neighbors : a.knn_indices[i][j] = c}

\* the columns the matrix must store in row i: named by a slot, at a distance
\* that is not 0
KeptColumns(a, i) ==
    {c \in Obs(a.n_obs) \ {i} : \E j \in SlotsOf(a, i, c) : a.knn_dists[i][j] # 0}

BuiltSparse ==
    /\ IsSome(conv_result)
    /\ Val(conv_result).by \in {"umap", "numpy"}

\* C13, as stated.  The matrix built from (knn_indices, knn_dists) stores in
\* row i the distance of every column named by a slot other than -1 whose
\* distance is not 0, stores the self-distance 0 explicitly at (i, i) when a
\* slot names i, and stores nothing for a -1 slot or a non-self column at
\* distance 0.
C13_SelfStored ==
    BuiltSparse =>
        LET a == Val(conv_args)
            built == Val(conv_result).D.rows
        IN \A i \in Obs(a.n_obs) :
            /\ DOMAIN built[i] =
                   KeptColumns(a, i) \cup (IF SlotsOf(a, i, i) # {} THEN {i} ELSE {})
            /\ SlotsOf(a, i, i) # {} => built[i][i] = 0
            /\ \A c \in KeptColumns(a, i) : \A j \in SlotsOf(a, i, c) :
                   built[i][c] = a.knn_dists[i][j]

\* C13, amended.  As above, but the matrix stores nothing on the diagonal:
\* row i stores exactly the non-self columns named by a slot at a distance that
\* is not 0, each with its distance.
C13_SparseFromKnn ==
    BuiltSparse =>
        LET a == Val(conv_args)
            built == Val(conv_result).D.rows
        IN \A i \in Obs(a.n_obs) :
            /\ DOMAIN built[i] = KeptColumns(a, i)
            /\ \A c \in KeptColumns(a, i) : \A j \in SlotsOf(a, i, c) :
                   built[i][c] = a.knn_dists[i][j]

\* a matrix built from rows with a self slot, an open slot, and a non-self
\* column at distance 0
C13_Witness ==
    /\ BuiltSparse
    /\ LET a == Val(conv_args)
       IN /\ \E i \in Obs(a.n_obs) : SlotsOf(a, i, i) # {}
          /\ \E i \in Obs(a.n_obs) : SlotsOf(a, i, -1) # {}
          /\ \E i \in Obs(a.n_obs) : \E c \in Obs(a.n_obs) \ {i} :
                SlotsOf(a, i, c) # {} /\ c \notin KeptColumns(a, i)

\* C14: for a sparse distance matrix D and k, every row i of the result starts
\* with i at distance 0; a row storing at least k-1 entries gives its k-1
\* smallest in increasing order of distance; a row storing fewer gives its
\* entries followed by -1 in the open slots, and the call does not fail.
C14_FromSparse ==
    (IsSome(conv_result) /\ Val(conv_result).by = "from_sparse") =>
        LET Dm == Val(conv_args).D
            kk == Val(conv_args).n_neighbors
            r == Val(conv_result)
        IN /\ r.raised = "none"
           /\ \A i \in DOMAIN Dm.rows :
                LET stored == DOMAIN Dm.rows[i]
                    filled == Min(Cardinality(stored), kk - 1)
                IN /\ r.indices[i][1] = i /\ r.distances[i][1] = 0
                   /\ \A p \in 2..(filled + 1) :
                        /\ r.indices[i][p] \in stored
                        /\ r.distances[i][p] = Dm.rows[i][r.indices[i][p]]
                        /\ \A c \in stored \ {r.indices[i][q] : q \in 2..(filled + 1)} :
                              r.distances[i][p] <= Dm.rows[i][c]
                   /\ \A p, q \in 2..(filled + 1) :
                        p < q => /\ r.distances[i][p] <= r.distances[i][q]
                                 /\ r.indices[i][p] # r.indices[i][q]
                   /\ \A p \in (filled + 2)..kk : r.indices[i][p] = -1

(***************************************************************************)
(* Claims about the root, checked under SpecRoot.                           *)
(***************************************************************************)
Constructed == IsSome(op) /\ Val(op).name = "_init_iroot"

\* C15: after construction over data with a stored root index, iroot is that
\* index when 0 <= index < n_obs and unset otherwise, whatever reference
\* vector is stored beside it; after any construction iroot is unset or an
\* index of an observation.
C15_RootInRange ==
    Constructed =>
        LET a == Val(adata)
        IN /\ IsSome(a.uns_iroot) =>
                iroot = IF Val(a.uns_iroot) \in Obs(a.n_obs) THEN a.uns_iroot ELSE None
           /\ Val(op).raised = "none" => (iroot = None \/ Val(iroot) \in Obs(a.n_obs))

\* C16: a reference vector whose size is not the number of features raises an
\* error, when _init_iroot picks it up from the data and when it is passed to
\* _set_iroot_via_xroot; it is never passed over with the root left as it was.
C16_SizeMismatchRaises ==
    (/\ IsSome(op)
     /\ Val(op).name \in {"_init_iroot", "_set_iroot_via_xroot"}
     /\ Val(op).name = "_init_iroot" => Val(adata).uns_iroot = None
     /\ IsSome(Val(op).xroot)
     /\ Len(Val(Val(op).xroot)) # Val(adata).n_vars)
    => Val(op).raised # "none"

(***************************************************************************)
(* A further claim about the Gaussian kernel, checked under SpecGauss.      *)
(***************************************************************************)
\* C17: in the knn case (here with n_neighbors >= 2) the matrix the call
\* stores is zero outside the symmetrized neighbor mask: W[i,j] is zero unless
\* j is a selected neighbor of i or i one of j; and where j is a selected
\* neighbor of i but i none of j, W[j,i] is the value of W[i,j].
C17_InsideMask ==
    (/\ IsSome(call) /\ Val(call).raised = "none"
     /\ Val(knn) /\ Val(n_neighbors) >= 2) =>
        LET W == Val(connectivities).m
            ind == Val(call).indices
        IN \A i, j \in DOMAIN W :
            /\ (j \notin Range(ind[i]) /\ i \notin Range(ind[j])) => W[i][j] = Zero
            /\ (j \in Range(ind[i]) /\ i \notin Range(ind[j])) => W[j][i] = W[i][j]

(***************************************************************************)
(* Claims about neighbors(), checked under SpecRun.                         *)
(***************************************************************************)
Returned == IsSome(call) /\ Val(call).raised = "none"

\* C18: after neighbors() has returned, the n_neighbors of the persisted
\* params is the count the persisted matrices were built with, which is the
\* n_neighbors of the computing object, also for a request above n_obs; an
\* object constructed over the block gets that same n_neighbors.
C18_PersistedCount ==
    Returned =>
        /\ Val(uns).params.n_neighbors = Val(uns).distances.k
        /\ Val(uns).params.n_neighbors = Val(uns).connectivities.k
        /\ ConstructedNNeighbors(Val(uns)) = Val(n_neighbors)

\* C20: after neighbors() has returned, the block holds exactly params, the
\* distances and the connectivities just computed, and a forest if and only if
\* the block carried one on entry, in which case it is that forest; nothing
\* else of the earlier block is left.
C20_BlockReplaced ==
    Returned =>
        LET before == Val(adata).uns_neighbors
            carried == IsSome(before) /\ "rp_forest" \in DOMAIN Val(before)
            block == Val(uns)
        IN /\ DOMAIN block = {"params", "distances", "connectivities"}
                                \cup (IF carried THEN {"rp_forest"} ELSE {})
           /\ block.params = [n_neighbors |-> Val(call).args.n_neighbors,
                              method |-> Val(call).args.method,
                              metric |-> Val(call).args.metric]
           /\ block.distances = Val(distances)
           /\ block.connectivities = Val(connectivities)
           /\ carried => block.rp_forest = Val(before).rp_forest

\* a run over a block that carried a forest and another entry, which wrote
\* matrices other than the ones carried
C20_Witness ==
    /\ Returned
    /\ IsSome(Val(adata).uns_neighbors)
    /\ {"rp_forest", "other"} \subseteq DOMAIN Val(Val(adata).uns_neighbors)
    /\ Val(uns).distances # Val(Val(adata).uns_neighbors).distances
    /\ Val(uns).connectivities # Val(Val(adata).uns_neighbors).connectivities
    /\ "rp_forest" \in DOMAIN Val(uns)

====
